---- MODULE Spec2Model ----
(***************************************************************************)
(* Ingestion (src/ingestion/fetch_dzbgs.py), similarity search            *)
(* (src/app/utils/db_tools.py) and the rag_search tool                     *)
(* (src/app/utils/rag_tools.py) of rag-ksd over the PostgreSQL tables      *)
(* public.document and public.document_chunk created by                    *)
(* src/db/alembic/versions/002_create_document_tables.py, and the login    *)
(* sessions (src/app/api/auth_routes.py, src/app/utils/session_manager.py) *)
(* over public.users and public.sessions of 003_create_user_tables.py.     *)
(*                                                                         *)
(* Every SQL statement is one atomic step (READ COMMITTED): rows written   *)
(* inside an open transaction stay in the writer's `pending` list and      *)
(* become visible in document_chunk only at conn.commit(); conn.close()    *)
(* without a commit discards them.                                         *)
(***************************************************************************)
EXTENDS Integers, Sequences, FiniteSets, TLC

\* ------------------------------------------------------------- bounds
\* Total number of process_and_save invocations in one behaviour with
\* overlapping runs.
MaxStarts == 2
\* Total number of process_and_save invocations in one behaviour whose runs
\* do not overlap.
MaxSeqStarts == 3
\* Largest number of pieces split_text produces for a text of the model.
MaxPieces == 2
\* Largest top_k passed to search_similar_chunks.
MaxTopK == 2
\* Total number of rag_search calls in one behaviour.
MaxRagCalls == 2
\* Total number of process_and_save invocations in one behaviour with
\* rag_search calls.
MaxRagStarts == 1
\* Largest number of session rows created in one behaviour.
MaxSessions == 2
\* Largest value of the clock (the clock starts at 0).
MaxTime == 2

\* The workers that may run process_and_save at the same time.
Procs == {"w1", "w2"}

\* ------------------------------------------------------------- texts
\* A text is a sequence of characters. One non-blank character stands for a
\* stretch of text that fills one chunk of the splitter (chunk_size=500).
Chars == {" ", "a", "b", "c"}

Body(n) == [i \in 1..n |-> IF i % 2 = 1 THEN "a" ELSE "b"]

Texts == {<<>>, <<" ">>, <<" ", "c", "a">>} \cup {Body(n) : n \in 1..MaxPieces}

\* The pages spider() hands to process_and_save: every text under one URL, and
\* the one-piece text also under a second URL (same content, other source).
Pages ==
    {[url |-> "u1", title |-> "t", text |-> t] : t \in Texts}
        \cup {[url |-> "u2", title |-> "t2", text |-> Body(1)]}

\* str.strip(): drop leading and trailing whitespace.
RECURSIVE lstrip(_)
lstrip(s) == IF s # <<>> /\ Head(s) = " " THEN lstrip(Tail(s)) ELSE s

RECURSIVE rstrip(_)
rstrip(s) == IF s # <<>> /\ s[Len(s)] = " " THEN rstrip(SubSeq(s, 1, Len(s) - 1)) ELSE s

strip(s) == rstrip(lstrip(s))

\* Variant of IsBlank that takes no text for blank.
IsBlankMut(text) == FALSE

\* Variant of IsBlank without text.strip(): only the empty text is blank.
IsBlankNoStrip(text) == text = <<>>

\* process_and_save: `not text or not text.strip()`
IsBlank(text) == text = <<>> \/ strip(text) = <<>>

\* calculate_hash: SHA-256 hex digest, modelled as an injective positional code
\* of the character sequence (no collisions among the texts of the model).
CharCode(c) == CASE c = " " -> 1 [] c = "a" -> 2 [] c = "b" -> 3 [] c = "c" -> 4

RECURSIVE calculate_hash(_)
calculate_hash(text) ==
    IF text = <<>> THEN 0 ELSE CharCode(Head(text)) + (Cardinality(Chars) + 1) * calculate_hash(Tail(text))

\* split_text(text, chunk_size=500, chunk_overlap=100): the ordered non-blank
\* pieces of the text; whitespace-only stretches yield no piece.
RECURSIVE split_text(_)
split_text(text) ==
    IF text = <<>> THEN <<>>
    ELSE IF Head(text) = " " THEN split_text(Tail(text))
    ELSE <<Head(text)>> \o split_text(Tail(text))

\* ------------------------------------------------------------- vectors
\* An embedding is [dim, norm, dir]: its number of dimensions, and either the
\* zero vector (norm 0) or a unit vector (norm 1) in the plane at dir * 45
\* degrees.  CosTable[k+1] is 1000 * cos(k * 45 degrees).
CosTable == <<1000, 707, 0, -707, -1000, -707, 0, 707>>
Dirs == 0..(Len(CosTable) - 1)

\* get_embeddings_model: "dimensions": 1024
EmbeddingDim == 1024
\* 002_create_document_tables.py: ADD COLUMN embedding vector(1536)
MigrationDim == 1536
\* The column dimension of the deployed table: the migration creates
\* vector(1536) while fetch_dzbgs.py:80 and rag_tools.py:24 state that the
\* schema holds 1024 dimensions; both are possible deployments.
ColDims == {EmbeddingDim, MigrationDim}

\* The embedding model is a fixed function of the text it is given and never
\* returns the zero vector: the direction it returns for a piece.
ProviderDir(piece) == CASE piece = "a" -> 0 [] piece = "b" -> 1 [] piece = "c" -> 3

\* embeddings_model.embed_documents(chunks): one vector of the configured
\* dimension per piece, in order.
embed_documents(pieces) ==
    [i \in 1..Len(pieces) |->
        [dim |-> EmbeddingDim, norm |-> 1, dir |-> ProviderDir(pieces[i])]]

\* Query vectors passed to search_similar_chunks: the empty list, vectors of
\* the provider's dimension (among them the zero vector) and one vector of
\* the migration's dimension.
QueryEmbeddings ==
    {[dim |-> 0, norm |-> 0, dir |-> 0], [dim |-> MigrationDim, norm |-> 1, dir |-> 0],
     [dim |-> EmbeddingDim, norm |-> 0, dir |-> 0]}
        \cup {[dim |-> EmbeddingDim, norm |-> 1, dir |-> d] : d \in {0, 1, 2, 4}}

\* similarity_threshold values, times 1000: the default of
\* search_similar_chunks, of rag_search, and a strict one.
Thresholds == {0, 300, 900}

TopKs == 0..MaxTopK

\* Query texts passed to rag_search: the empty string, a whitespace-only one,
\* and one-piece texts.
Queries == {<<>>, <<" ">>} \cup {<<c>> : c \in Chars \ {" "}}

\* top_k values passed to rag_search: its default (top_k: int = 5), which the
\* model stores never reach, stands at the largest top_k of the model.
RagTopKs == {MaxTopK}

\* similarity_threshold values passed to rag_search, times 1000: its default
\* 0.3 and a strict one.
RagThresholds == {300, 900}

\* Directions of the vector the provider may return for a blank query, when it
\* returns one.
BlankQueryDirs == {0, 2}

\* embeddings_model.embed_query(query): the vectors the call may return. The
\* model is the one of embed_documents, configured with dimensions=1024.
embed_query(query) ==
    {[dim |-> EmbeddingDim, norm |-> 1, dir |-> d] :
        d \in IF IsBlank(query) THEN BlankQueryDirs ELSE {ProviderDir(strip(query)[1])}}

\* ------------------------------------------------------------- users
\* The rows of public.users: an active account and a disabled one.
Users ==
    {[id |-> 1, username |-> "alice", password |-> "pa", is_active |-> TRUE, is_admin |-> TRUE],
     [id |-> 2, username |-> "bob", password |-> "pb", is_active |-> FALSE, is_admin |-> FALSE]}

\* LoginRequest.username and LoginRequest.password values.
Usernames == {"alice", "bob", "carol"}
Passwords == {"pa", "pb"}

\* SESSION_EXPIRE_MINUTES, in ticks of the clock.
SESSION_EXPIRE_MINUTES == 2

\* Session ids a request may carry: 0 stands for the empty string, 1..MaxSessions
\* are the tokens create_session hands out, MaxSessions + 1 is never handed out.
SessionIds == 0..(MaxSessions + 1)

\* The requests that may be in progress at the same time.
AuthReqs == {"q1", "q2"}

\* Chat requests in progress at the same time, the number of chat requests
\* started in a behaviour, and the chunks of one answer.
ChatReqs == {"k1", "k2"}
MaxChatStarts == 2
MaxChunks == 1

\* request.session_id: 0 for None, or the id of a session the client knows.
RequestSessionIds == {0, 1}

ChatSessionIds == 1..(MaxChatStarts + 1)

\* _AGENT_REGISTRY after the import of agent.role: register_agent("rag", ...).
AGENT_REGISTRY == {"rag"}

\* Agent names of the path, and of the request body ("" for None).
AgentNames == {"rag", "nope"}
RequestAgentNames == {""} \cup AgentNames

VARIABLES
    \* ---- store (committed state)
    document,        \* rows of public.document
    document_chunk,  \* rows of public.document_chunk
    doc_seq,         \* next value of document.id sequence
    chunk_seq,       \* next value of document_chunk.id sequence
    colDim,          \* dimension of document_chunk.embedding
    \* ---- process_and_save, per worker
    pc,              \* position in process_and_save / save_* of the worker
    data,            \* argument `data`: [url, title, text]
    doc_id,          \* local doc_id
    chunks,          \* local chunks (pieces)
    embeddings,      \* local embeddings
    pending,         \* chunk rows INSERTed in the open transaction, uncommitted
    \* ---- history of the current run of each worker
    found,           \* save_document_to_db's SELECT returned a row
    inserted,        \* save_document_to_db inserted a row
    embedCalls,      \* number of embed_documents calls of the run
    wrote,           \* number of chunk rows the run committed
    failedAt,        \* where the run raised ("" if it did not)
    prior,           \* a run on the same text had returned normally before this one started
    resumed,         \* the SELECT returned a document that had no chunk row
    starts,          \* number of process_and_save invocations so far
    ingested,        \* non-blank texts on which a run has returned normally
    \* ---- search_similar_chunks (one call, made at any point of the ingestion)
    spc,             \* position in search_similar_chunks
    sargs,           \* its arguments [query_embedding, top_k, similarity_threshold]
    total_chunks,    \* local total_chunks
    rows,            \* local rows (cur.fetchall() of the similarity query)
    sresult,         \* the returned list
    sim_queries,     \* number of similarity queries the call has executed
    diag_row,        \* local row of the LIMIT 1 query (<<>> when it fetched none)
    \* ---- rag_search (calls made one after the other)
    rpc,             \* position in rag_search
    rargs,           \* its arguments [query, top_k, similarity_threshold]
    rresult,         \* the value it returned
    rembed,          \* number of embed_query calls of the call
    rcase,           \* what the call met in search_similar_chunks
    rcalls,          \* number of rag_search calls so far
    enhanced_system, \* the system prompt RagAgent built from the last return value
    seen,            \* [case, value] of the calls that returned so far from an
                     \* empty index or with no candidate above the threshold
    \* ---- sessions (auth_routes.py, session_manager.py)
    sessions,        \* rows of public.sessions
    sess_seq,        \* the next token secrets.token_urlsafe returns
    now,             \* the clock: now() of the database, datetime.now() of the app
    apc,             \* per request: position in its handler
    areq,            \* per request: [op, username, password, session_id]
    alocal,          \* per request: the row fetched by the handler's SELECT (0 if none)
    aresult,         \* per request: the response [status, session_id, user_id]
    acase,           \* per request: what the SELECT of get_session met
    deleted,         \* session ids for which delete_session has returned True
    conversation_history,        \* main.py: session_id -> list of messages
    agent_conversation_history,  \* main.py: session_id -> list of messages
    kpc,             \* per chat request: "idle", "opened", "streaming", "ended"
    kreq,            \* per chat request: endpoint, question, session_id, agent name
    events,          \* per chat request: the events sent so far
    full_content,    \* per chat request: the chunks collected so far
    cleared,         \* per chat request: its session was cleared while it streamed
    kstarts          \* number of chat requests started

storeVars == <<document, document_chunk, doc_seq, chunk_seq, colDim>>
runVars == <<pc, data, doc_id, chunks, embeddings, pending>>
histVars == <<found, inserted, embedCalls, wrote, failedAt, prior, resumed, starts, ingested>>
searchVars == <<spc, sargs, total_chunks, rows, sresult, sim_queries, diag_row>>
ingestVars == <<runVars, histVars>>
ragVars == <<rpc, rargs, rresult, rembed, rcase, rcalls, seen, enhanced_system>>
authVars == <<sessions, sess_seq, now, apc, areq, alocal, aresult, acase, deleted>>
chatVars == <<conversation_history, agent_conversation_history, kpc, kreq, events,
              full_content, cleared, kstarts>>
vars == <<storeVars, runVars, histVars, searchVars, ragVars, authVars, chatVars>>

Active(r) == pc[r] \notin {"idle", "done", "failed"}

\* SELECT COUNT(*) FROM public.document_chunk WHERE document_id = d
count_chunks(d) == Cardinality({c \in document_chunk : c.document_id = d})

\* Variants of the chunk_count test: off by one, never true, always true.
HasChunksMut(chunk_count) == chunk_count > 1
HasChunksNever(chunk_count) == FALSE
HasChunksAlways(chunk_count) == chunk_count >= 0

\* process_and_save: `if chunk_count > 0` (the document already has chunks).
HasChunks(chunk_count) == chunk_count > 0

\* Variant of ChunkRow that numbers the chunks from one.
ChunkRowMut(id, document_id, idx, chunk_text, embedding) ==
    [id |-> id, document_id |-> document_id, chunk_index |-> idx + 1,
     content |-> chunk_text, embedding |-> embedding]

\* The row built by the INSERT of save_chunks_to_db for enumerate index idx
\* (zero-based) of zip(chunks, embeddings).
ChunkRow(id, document_id, idx, chunk_text, embedding) ==
    [id |-> id, document_id |-> document_id, chunk_index |-> idx,
     content |-> chunk_text, embedding |-> embedding]

Init ==
    /\ document = {}
    /\ document_chunk = {}
    /\ doc_seq = 1
    /\ chunk_seq = 1
    /\ colDim \in ColDims
    /\ pc = [r \in Procs |-> "idle"]
    /\ data = [r \in Procs |-> [url |-> "u1", title |-> "t", text |-> <<>>]]
    /\ doc_id = [r \in Procs |-> 0]
    /\ chunks = [r \in Procs |-> <<>>]
    /\ embeddings = [r \in Procs |-> <<>>]
    /\ pending = [r \in Procs |-> <<>>]
    /\ found = [r \in Procs |-> FALSE]
    /\ inserted = [r \in Procs |-> FALSE]
    /\ embedCalls = [r \in Procs |-> 0]
    /\ wrote = [r \in Procs |-> 0]
    /\ failedAt = [r \in Procs |-> ""]
    /\ prior = [r \in Procs |-> FALSE]
    /\ resumed = [r \in Procs |-> FALSE]
    /\ starts = 0
    /\ ingested = {}
    /\ spc = "idle"
    /\ sargs = [query_embedding |-> [dim |-> 0, norm |-> 0, dir |-> 0], top_k |-> 0,
                similarity_threshold |-> 0]
    /\ total_chunks = 0
    /\ rows = <<>>
    /\ sresult = <<>>
    /\ sim_queries = 0
    /\ diag_row = <<>>
    /\ rpc = "idle"
    /\ rargs = [query |-> <<>>, top_k |-> 0, similarity_threshold |-> 0]
    /\ rresult = [kind |-> "", docs |-> <<>>]
    /\ rembed = 0
    /\ rcase = ""
    /\ rcalls = 0
    /\ enhanced_system = [kind |-> "", retrieved |-> [kind |-> "", docs |-> <<>>]]
    /\ seen = {}
    /\ sessions = {}
    /\ sess_seq = 1
    /\ now = 0
    /\ apc = [q \in AuthReqs |-> "idle"]
    /\ areq = [q \in AuthReqs |-> [op |-> "", username |-> "", password |-> "", session_id |-> 0]]
    /\ alocal = [q \in AuthReqs |-> 0]
    /\ aresult = [q \in AuthReqs |-> [status |-> 0, session_id |-> 0, user_id |-> 0]]
    /\ acase = [q \in AuthReqs |-> ""]
    /\ deleted = {}
    /\ conversation_history = << >>
    /\ agent_conversation_history = << >>
    /\ kpc = [k \in ChatReqs |-> "idle"]
    /\ kreq = [k \in ChatReqs |-> [endpoint |-> "", q |-> 0, session_id |-> 0, agent_name |-> ""]]
    /\ events = [k \in ChatReqs |-> << >>]
    /\ full_content = [k \in ChatReqs |-> 0]
    /\ cleared = [k \in ChatReqs |-> FALSE]
    /\ kstarts = 0

\* ------------------------------------------------------------- ingestion
\* process_and_save(data, embeddings_model), up to the call of save_document_to_db.
ProcessAndSave(r) ==
    /\ ~Active(r)
    /\ \E d \in Pages :
        /\ data' = [data EXCEPT ![r] = d]
        /\ pc' = [pc EXCEPT ![r] = IF IsBlank(d.text) THEN "done" ELSE "select"]
        /\ prior' = [prior EXCEPT ![r] = d.text \in ingested]
    /\ doc_id' = [doc_id EXCEPT ![r] = 0]
    /\ chunks' = [chunks EXCEPT ![r] = <<>>]
    /\ embeddings' = [embeddings EXCEPT ![r] = <<>>]
    /\ pending' = [pending EXCEPT ![r] = <<>>]
    /\ found' = [found EXCEPT ![r] = FALSE]
    /\ inserted' = [inserted EXCEPT ![r] = FALSE]
    /\ embedCalls' = [embedCalls EXCEPT ![r] = 0]
    /\ wrote' = [wrote EXCEPT ![r] = 0]
    /\ failedAt' = [failedAt EXCEPT ![r] = ""]
    /\ resumed' = [resumed EXCEPT ![r] = FALSE]
    /\ starts' = starts + 1
    /\ UNCHANGED <<searchVars, storeVars, ingested>>

\* save_document_to_db: SELECT id FROM public.document WHERE content_hash = %s;
\* fetchone() returns any matching row.
SaveDocSelect(r) ==
    /\ pc[r] = "select"
    /\ LET h == calculate_hash(data[r].text)
           existing == {d \in document : d.content_hash = h}
       IN  \/ /\ existing # {}
              /\ \E d \in existing :
                    /\ doc_id' = [doc_id EXCEPT ![r] = d.id]
                    /\ resumed' = [resumed EXCEPT ![r] = count_chunks(d.id) = 0]
              /\ found' = [found EXCEPT ![r] = TRUE]
              /\ pc' = [pc EXCEPT ![r] = "count"]
           \/ /\ existing = {}
              /\ pc' = [pc EXCEPT ![r] = "insert"]
              /\ UNCHANGED <<doc_id, found, resumed>>
    /\ UNCHANGED <<searchVars, storeVars, data, chunks, embeddings, pending, inserted,
                   embedCalls, wrote, failedAt, prior, starts, ingested>>

\* Variant of SaveDocInsert without conn.commit(): the row is lost at
\* conn.close().
SaveDocInsertMut(r) ==
    /\ pc[r] = "insert"
    /\ document' = document
    /\ doc_seq' = doc_seq + 1
    /\ doc_id' = [doc_id EXCEPT ![r] = doc_seq]
    /\ inserted' = [inserted EXCEPT ![r] = TRUE]
    /\ pc' = [pc EXCEPT ![r] = "count"]
    /\ UNCHANGED <<searchVars, document_chunk, chunk_seq, colDim, data, chunks, embeddings,
                   pending, found, embedCalls, wrote, failedAt, prior, resumed, starts,
                   ingested>>

\* Variant of SaveDocInsert that replaces the rows of the same source_url
\* (an upsert keyed by the URL).
SaveDocInsertUpsert(r) ==
    /\ pc[r] = "insert"
    /\ document' = {d \in document : d.source_url # data[r].url} \cup
          {[id |-> doc_seq, source_url |-> data[r].url, title |-> data[r].title,
            content |-> data[r].text, content_hash |-> calculate_hash(data[r].text)]}
    /\ doc_seq' = doc_seq + 1
    /\ doc_id' = [doc_id EXCEPT ![r] = doc_seq]
    /\ inserted' = [inserted EXCEPT ![r] = TRUE]
    /\ pc' = [pc EXCEPT ![r] = "count"]
    /\ UNCHANGED <<searchVars, document_chunk, chunk_seq, colDim, data, chunks, embeddings,
                   pending, found, embedCalls, wrote, failedAt, prior, resumed, starts,
                   ingested>>

\* save_document_to_db: INSERT INTO public.document ... RETURNING id; conn.commit().
\* The table has a plain (non-unique) index on content_hash, so the INSERT
\* succeeds whatever rows exist.
SaveDocInsert(r) ==
    /\ pc[r] = "insert"
    /\ document' = document \cup
          {[id |-> doc_seq, source_url |-> data[r].url, title |-> data[r].title,
            content |-> data[r].text, content_hash |-> calculate_hash(data[r].text)]}
    /\ doc_seq' = doc_seq + 1
    /\ doc_id' = [doc_id EXCEPT ![r] = doc_seq]
    /\ inserted' = [inserted EXCEPT ![r] = TRUE]
    /\ pc' = [pc EXCEPT ![r] = "count"]
    /\ UNCHANGED <<searchVars, document_chunk, chunk_seq, colDim, data, chunks, embeddings,
                   pending, found, embedCalls, wrote, failedAt, prior, resumed, starts,
                   ingested>>

\* process_and_save: SELECT COUNT(*) ... WHERE document_id = doc_id; return if
\* chunk_count > 0, else chunks = split_text(text, 500, 100) and enter
\* save_chunks_to_db (which returns at once when chunks is empty).
CountChunks(r) ==
    /\ pc[r] = "count"
    /\ LET chunk_count == count_chunks(doc_id[r])
           pieces == split_text(data[r].text)
       IN  IF HasChunks(chunk_count)
           THEN /\ pc' = [pc EXCEPT ![r] = "done"]
                /\ ingested' = ingested \cup {data[r].text}
                /\ UNCHANGED chunks
           ELSE /\ chunks' = [chunks EXCEPT ![r] = pieces]
                /\ pc' = [pc EXCEPT ![r] = IF pieces = <<>> THEN "done" ELSE "embed"]
                /\ UNCHANGED ingested
    /\ UNCHANGED <<searchVars, storeVars, data, doc_id, embeddings, pending, found, inserted,
                   embedCalls, wrote, failedAt, prior, resumed, starts>>

\* save_chunks_to_db: embeddings = embeddings_model.embed_documents(chunks)
\* returns one vector of EmbeddingDim dimensions per piece.
EmbedDocuments(r) ==
    /\ pc[r] = "embed"
    /\ embeddings' = [embeddings EXCEPT ![r] = embed_documents(chunks[r])]
    /\ embedCalls' = [embedCalls EXCEPT ![r] = @ + 1]
    /\ pc' = [pc EXCEPT ![r] = "store"]
    /\ UNCHANGED <<searchVars, storeVars, data, doc_id, chunks, pending, found, inserted,
                   wrote, failedAt, prior, resumed, starts, ingested>>

\* save_chunks_to_db: embed_documents raises; finally: conn.close().
EmbedFail(r) ==
    /\ pc[r] = "embed"
    /\ embedCalls' = [embedCalls EXCEPT ![r] = @ + 1]
    /\ pc' = [pc EXCEPT ![r] = "failed"]
    /\ failedAt' = [failedAt EXCEPT ![r] = "embed"]
    /\ UNCHANGED <<searchVars, storeVars, data, doc_id, chunks, embeddings, pending, found, inserted,
                   wrote, prior, resumed, starts, ingested>>

\* save_chunks_to_db: one INSERT INTO public.document_chunk of the loop; the
\* %s::vector cast is accepted only for a vector of the column's dimension.
InsertChunk(r) ==
    /\ pc[r] = "store"
    /\ Len(pending[r]) < Len(chunks[r])
    /\ LET idx == Len(pending[r])
       IN  /\ embeddings[r][idx + 1].dim = colDim
           /\ pending' = [pending EXCEPT ![r] =
                 Append(@, ChunkRow(chunk_seq, doc_id[r], idx, chunks[r][idx + 1],
                                    embeddings[r][idx + 1]))]
    /\ chunk_seq' = chunk_seq + 1
    /\ UNCHANGED <<searchVars, document, document_chunk, doc_seq, colDim, pc, data, doc_id,
                   chunks, embeddings, histVars>>

\* save_chunks_to_db: an INSERT raises (wrong vector dimension, or any other
\* database error); finally: conn.close() discards the open transaction.
InsertChunkFail(r) ==
    /\ pc[r] = "store"
    /\ Len(pending[r]) < Len(chunks[r])
    /\ pending' = [pending EXCEPT ![r] = <<>>]
    /\ pc' = [pc EXCEPT ![r] = "failed"]
    /\ failedAt' = [failedAt EXCEPT ![r] = "insert"]
    /\ UNCHANGED <<searchVars, storeVars, data, doc_id, chunks, embeddings, found, inserted,
                   embedCalls, wrote, prior, resumed, starts, ingested>>

\* save_chunks_to_db: conn.commit() after the loop.
CommitChunks(r) ==
    /\ pc[r] = "store"
    /\ Len(pending[r]) = Len(chunks[r])
    /\ document_chunk' = document_chunk \cup {pending[r][i] : i \in 1..Len(pending[r])}
    /\ wrote' = [wrote EXCEPT ![r] = Len(pending[r])]
    /\ pending' = [pending EXCEPT ![r] = <<>>]
    /\ pc' = [pc EXCEPT ![r] = "done"]
    /\ ingested' = ingested \cup {data[r].text}
    /\ UNCHANGED <<searchVars, document, doc_seq, chunk_seq, colDim, data, doc_id, chunks,
                   embeddings, found, inserted, embedCalls, failedAt, prior, resumed, starts>>

Ingest(r) ==
    \/ SaveDocSelect(r)
    \/ SaveDocInsert(r)
    \/ CountChunks(r)
    \/ EmbedDocuments(r)
    \/ EmbedFail(r)
    \/ InsertChunk(r)
    \/ InsertChunkFail(r)
    \/ CommitChunks(r)


\* ------------------------------------------------------------- search
\* 1 - (dc.embedding <=> q): cosine similarity times 1000; NaN when one of the
\* vectors has norm zero.
similarity(e, q) ==
    IF e.norm = 0 \/ q.norm = 0
    THEN [nan |-> TRUE, v |-> 0]
    ELSE [nan |-> FALSE, v |-> CosTable[((e.dir - q.dir) % Len(CosTable)) + 1]]

\* The rows of the CTE similarity_scores: document_chunk JOIN document.
similarity_scores(q) ==
    {[id |-> c.id, document_id |-> c.document_id, chunk_index |-> c.chunk_index,
      content |-> c.content, similarity |-> similarity(c.embedding, q),
      document_title |-> d.title, document_url |-> d.source_url] :
        <<c, d>> \in {x \in document_chunk \X document : x[1].document_id = x[2].id}}

\* PostgreSQL sorts NaN above every number.
OrderKey(sim) == IF sim.nan THEN 2000 ELSE sim.v

\* Variant of ComesFirst for ORDER BY similarity ASC.
ComesFirstMut(x, S) == \A y \in S : OrderKey(x.similarity) <= OrderKey(y.similarity)

\* ORDER BY similarity DESC: x may come first among the rows S.
ComesFirst(x, S) == \A y \in S : OrderKey(y.similarity) <= OrderKey(x.similarity)

\* The results PostgreSQL may return for ORDER BY similarity DESC LIMIT n
\* (rows of equal similarity come in any order).
RECURSIVE OrderByLimit(_, _)
OrderByLimit(S, n) ==
    IF n <= 0 \/ S = {} THEN {<<>>}
    ELSE UNION {{<<x>> \o rest : rest \in OrderByLimit(S \ {x}, n - 1)} :
                    x \in {y \in S : ComesFirst(y, S)}}

\* LIMIT %s with (embedding_str, top_k * 2)
QueryLimit(top_k) == top_k * 2

\* `if similarity_value >= similarity_threshold` (a NaN compares false)
MeetsThreshold(sim, similarity_threshold) == ~sim.nan /\ sim.v >= similarity_threshold

\* The loop over rows that builds `results`; a kept row carries
\* similarity_value = float(similarity), which is a number for every kept row.
FilterRows(rs, similarity_threshold) ==
    LET Keep(x) == MeetsThreshold(x.similarity, similarity_threshold)
        kept == SelectSeq(rs, Keep)
    IN  [i \in 1..Len(kept) |-> [kept[i] EXCEPT !.similarity = kept[i].similarity.v]]

\* Variant of IsEmptyIndex that never reports an empty index.
IsEmptyIndexMut(total) == FALSE

\* `if total_chunks == 0: return []`
IsEmptyIndex(total) == total = 0

\* search_similar_chunks(query_embedding, top_k, similarity_threshold) up to
\* its first statement: `if not query_embedding`, then SELECT COUNT(*) ...
\* WHERE embedding IS NOT NULL (every row this model stores has an embedding).
SearchCountArgs(q, k, thr) ==
    /\ spc = "idle"
    /\ sargs' = [query_embedding |-> q, top_k |-> k, similarity_threshold |-> thr]
    /\ IF q.dim = 0
       THEN /\ spc' = "returned"
            /\ total_chunks' = 0
       ELSE /\ total_chunks' = Cardinality(document_chunk)
            /\ spc' = IF IsEmptyIndex(total_chunks') THEN "returned" ELSE "query"
    /\ rows' = <<>>
    /\ sresult' = <<>>
    /\ sim_queries' = 0
    /\ diag_row' = <<>>
    /\ UNCHANGED <<storeVars, ingestVars>>

\* A call of search_similar_chunks with any arguments.
SearchCount ==
    \E q \in QueryEmbeddings, k \in TopKs, thr \in Thresholds : SearchCountArgs(q, k, thr)

\* The similarity query and the filter loop.
SearchQuery ==
    /\ spc = "query"
    /\ sargs.query_embedding.dim = colDim
    /\ \E rs \in OrderByLimit(similarity_scores(sargs.query_embedding),
                              QueryLimit(sargs.top_k)) :
        /\ rows' = rs
        /\ sresult' = FilterRows(rs, sargs.similarity_threshold)
        /\ spc' = IF sresult' # <<>> THEN "returned" ELSE "diag"
    /\ sim_queries' = sim_queries + 1
    /\ UNCHANGED <<storeVars, ingestVars, sargs, total_chunks, diag_row>>

\* Variant of SearchQueryFail whose error handler empties the index.
SearchQueryFailMut ==
    /\ spc = "query"
    /\ rows' = <<>>
    /\ sresult' = <<>>
    /\ spc' = "returned"
    /\ sim_queries' = sim_queries + 1
    /\ document_chunk' = {}
    /\ UNCHANGED <<document, doc_seq, chunk_seq, colDim, ingestVars, sargs, total_chunks,
                   diag_row>>

\* The similarity query raises (vectors of different dimensions, or any other
\* database error): `except Exception: return []`.
SearchQueryFail ==
    /\ spc = "query"
    /\ rows' = <<>>
    /\ sresult' = <<>>
    /\ spc' = "returned"
    /\ sim_queries' = sim_queries + 1
    /\ UNCHANGED <<storeVars, ingestVars, sargs, total_chunks, diag_row>>

\* Variant of SearchDiag that falls back to the best match: the row of the
\* LIMIT 1 query is added to the results.
SearchDiagMut ==
    /\ spc = "diag"
    /\ \E best \in OrderByLimit(similarity_scores(sargs.query_embedding), 1) :
        /\ diag_row' = best
        /\ sresult' = [i \in 1..Len(best) |->
                          [best[i] EXCEPT !.similarity = OrderKey(best[i].similarity)]]
    /\ sim_queries' = sim_queries + 1
    /\ spc' = "returned"
    /\ UNCHANGED <<storeVars, ingestVars, sargs, total_chunks, rows>>

\* No row met the threshold (`if total_chunks > 0` holds here): the LIMIT 1
\* query run for the debug output. Its row, if it fetched one, is printed and
\* dropped; `return results`.
SearchDiag ==
    /\ spc = "diag"
    /\ \E best \in OrderByLimit(similarity_scores(sargs.query_embedding), 1) :
        diag_row' = best
    /\ sim_queries' = sim_queries + 1
    /\ spc' = "returned"
    /\ UNCHANGED <<storeVars, ingestVars, sargs, total_chunks, rows, sresult>>

\* The LIMIT 1 query raises: `except Exception as e: print(...)`, then
\* `return results`.
SearchDiagFail ==
    /\ spc = "diag"
    /\ sim_queries' = sim_queries + 1
    /\ spc' = "returned"
    /\ UNCHANGED <<storeVars, ingestVars, sargs, total_chunks, rows, sresult, diag_row>>

Search == SearchCount \/ SearchQuery \/ SearchQueryFail \/ SearchDiag \/ SearchDiagFail

\* ------------------------------------------------------------- rag_search
\* return "未找到相关文档"
NoDocuments == [kind |-> "NoDocuments", docs |-> <<>>]

\* return f"检索过程中发生错误: {str(e)}"
ErrorResult == [kind |-> "Error", docs |-> <<>>]

NoRetrieved == [kind |-> "", docs |-> <<>>]

\* No system prompt has been built for the current rag_search call.
NoPrompt == [kind |-> "", retrieved |-> NoRetrieved]

\* Variant of rag_result that reports an empty list as an error.
rag_resultMut(similar_chunks) ==
    IF similar_chunks = <<>> THEN ErrorResult
    ELSE [kind |-> "Documents", docs |-> similar_chunks]

\* rag_search from `if not similar_chunks` on: the sentinel for an empty list,
\* else one block per chunk with its title, content, similarity and source.
rag_result(similar_chunks) ==
    IF similar_chunks = <<>> THEN NoDocuments
    ELSE [kind |-> "Documents",
          docs |-> [i \in 1..Len(similar_chunks) |->
                      [document_title |-> similar_chunks[i].document_title,
                       content |-> similar_chunks[i].content,
                       similarity |-> similar_chunks[i].similarity,
                       document_url |-> similar_chunks[i].document_url]]]

RagIdle == rpc \in {"idle", "returned"} /\ rcalls < MaxRagCalls

\* rag_search(query, top_k, similarity_threshold): embed_query(query) returns
\* a vector and search_similar_chunks is entered with it.
RagSearch ==
    /\ RagIdle
    /\ \E query \in Queries, k \in RagTopKs, thr \in RagThresholds :
        /\ rargs' = [query |-> query, top_k |-> k, similarity_threshold |-> thr]
        /\ \E q \in embed_query(query) : SearchCountArgs(q, k, thr)
    /\ rpc' = "searching"
    /\ rresult' = [kind |-> "", docs |-> <<>>]
    /\ rembed' = 1
    /\ rcase' = ""
    /\ rcalls' = rcalls + 1
    /\ enhanced_system' = NoPrompt
    /\ UNCHANGED seen

\* rag_search: embed_query(query) raises; `except Exception` returns the
\* error text.
RagEmbedFail ==
    /\ RagIdle
    /\ \E query \in Queries, k \in RagTopKs, thr \in RagThresholds :
        rargs' = [query |-> query, top_k |-> k, similarity_threshold |-> thr]
    /\ rpc' = "returned"
    /\ rresult' = ErrorResult
    /\ rembed' = 1
    /\ rcase' = "embed_failed"
    /\ rcalls' = rcalls + 1
    /\ enhanced_system' = NoPrompt
    /\ UNCHANGED <<storeVars, ingestVars, searchVars, seen>>

\* rag_search: get_db_connection() of search_similar_chunks raises (it is
\* called outside the try block); `except Exception` of rag_search returns the
\* error text.
RagConnectFail ==
    /\ RagIdle
    /\ \E query \in Queries, k \in RagTopKs, thr \in RagThresholds :
        rargs' = [query |-> query, top_k |-> k, similarity_threshold |-> thr]
    /\ rpc' = "returned"
    /\ rresult' = ErrorResult
    /\ rembed' = 1
    /\ rcase' = "connect_failed"
    /\ rcalls' = rcalls + 1
    /\ enhanced_system' = NoPrompt
    /\ UNCHANGED <<storeVars, ingestVars, searchVars, seen>>

\* What the call of search_similar_chunks that has returned met.
SearchCase ==
    CASE total_chunks = 0 -> "empty_index"
      [] sresult # <<>> -> "found"
      [] sim_queries = 1 -> "query_failed"
      [] rows = <<>> -> "no_candidates"
      [] OTHER -> "below_threshold"

\* search_similar_chunks has returned (its locals are gone); rag_search builds
\* its return value from the list.
RagFormat ==
    /\ rpc = "searching"
    /\ spc = "returned"
    /\ rresult' = rag_result(sresult)
    /\ rcase' = SearchCase
    /\ seen' = IF rcase' \in {"empty_index", "below_threshold"}
               THEN seen \cup {[case |-> rcase', value |-> rresult']}
               ELSE seen
    /\ rpc' = "returned"
    /\ spc' = "idle"
    /\ sargs' = [query_embedding |-> [dim |-> 0, norm |-> 0, dir |-> 0], top_k |-> 0,
                 similarity_threshold |-> 0]
    /\ total_chunks' = 0
    /\ rows' = <<>>
    /\ sresult' = <<>>
    /\ sim_queries' = 0
    /\ diag_row' = <<>>
    /\ UNCHANGED <<storeVars, ingestVars, rargs, rembed, rcalls, enhanced_system>>

\* RagAgent.astream / RagAgent.invoke: `if retrieved and retrieved !=
\* "未找到相关文档"`. Every value rag_search returns is a non-empty string;
\* only the sentinel is excluded by the comparison.
UsesDocumentsPrompt(retrieved) == retrieved.kind # "" /\ retrieved # NoDocuments

\* RagAgent: the system prompt built from the value rag_search returned; the
\* documents prompt embeds that value.
build_enhanced_system(retrieved) ==
    IF UsesDocumentsPrompt(retrieved)
    THEN [kind |-> "documents", retrieved |-> retrieved]
    ELSE [kind |-> "no_documents", retrieved |-> NoRetrieved]

\* RagAgent.astream after `retrieved = rag_search.run(question)` has returned.
RagAgentPrompt ==
    /\ rpc = "returned"
    /\ enhanced_system = NoPrompt
    /\ enhanced_system' = build_enhanced_system(rresult)
    /\ UNCHANGED <<storeVars, ingestVars, searchVars, rpc, rargs, rresult, rembed, rcase,
                   rcalls, seen>>

\* ------------------------------------------------------------- sessions
\* Variant of verify_password that accepts every password.
verify_passwordMut(password, stored_password) == TRUE

\* verify_password: `password == stored_password`
verify_password(password, stored_password) == password = stored_password

\* get_user_by_username: SELECT ... FROM public.users WHERE username = %s
get_user_by_username(username) == {u \in Users : u.username = username}

\* Variant of NotExpired that still accepts a session at its expiry time.
NotExpiredMut(s, t) == s.expires_at >= t

\* get_session: `s.expires_at > now()`
NotExpired(s, t) == s.expires_at > t

Response(status, session_id, user_id) ==
    [status |-> status, session_id |-> session_id, user_id |-> user_id]

AuthIdle(q) == apc[q] \in {"idle", "done"}

\* login, up to the call of create_session: 401 for an unknown user, 403 for a
\* disabled account, 401 for a wrong password.
Login(q) ==
    /\ AuthIdle(q)
    /\ sess_seq + Cardinality({p \in AuthReqs : apc[p] = "create"}) <= MaxSessions
    /\ \E username \in Usernames, password \in Passwords :
        /\ areq' = [areq EXCEPT ![q] = [op |-> "login", username |-> username,
                                        password |-> password, session_id |-> 0]]
        /\ LET found_users == get_user_by_username(username)
           IN  IF found_users = {}
               THEN /\ aresult' = [aresult EXCEPT ![q] = Response(401, 0, 0)]
                    /\ apc' = [apc EXCEPT ![q] = "done"]
                    /\ alocal' = [alocal EXCEPT ![q] = 0]
               ELSE \E user \in found_users :
                    IF ~user.is_active
                    THEN /\ aresult' = [aresult EXCEPT ![q] = Response(403, 0, 0)]
                         /\ apc' = [apc EXCEPT ![q] = "done"]
                         /\ alocal' = [alocal EXCEPT ![q] = 0]
                    ELSE IF ~verify_password(password, user.password)
                    THEN /\ aresult' = [aresult EXCEPT ![q] = Response(401, 0, 0)]
                         /\ apc' = [apc EXCEPT ![q] = "done"]
                         /\ alocal' = [alocal EXCEPT ![q] = 0]
                    ELSE /\ aresult' = [aresult EXCEPT ![q] = Response(0, 0, 0)]
                         /\ apc' = [apc EXCEPT ![q] = "create"]
                         /\ alocal' = [alocal EXCEPT ![q] = user.id]
    /\ acase' = [acase EXCEPT ![q] = ""]
    /\ UNCHANGED <<sessions, sess_seq, now, deleted>>

\* create_session: a fresh token, expires_at = datetime.now() +
\* SESSION_EXPIRE_MINUTES, INSERT INTO public.sessions, commit; login returns
\* the LoginResponse.
CreateSession(q) ==
    /\ apc[q] = "create"
    /\ sessions' = sessions \cup
          {[session_id |-> sess_seq, user_id |-> alocal[q],
            expires_at |-> now + SESSION_EXPIRE_MINUTES, last_accessed_at |-> now]}
    /\ sess_seq' = sess_seq + 1
    /\ aresult' = [aresult EXCEPT ![q] = Response(200, sess_seq, alocal[q])]
    /\ apc' = [apc EXCEPT ![q] = "done"]
    /\ UNCHANGED <<now, areq, alocal, acase, deleted>>

\* create_session raises (connection or INSERT error): no row is committed
\* and the request ends with a server error.
CreateSessionFail(q) ==
    /\ apc[q] = "create"
    /\ aresult' = [aresult EXCEPT ![q] = Response(500, 0, 0)]
    /\ apc' = [apc EXCEPT ![q] = "done"]
    /\ UNCHANGED <<sessions, sess_seq, now, areq, alocal, acase, deleted>>

\* What a SELECT of get_session for session_id meets in the sessions table.
SessionCase(session_id) ==
    CASE session_id = 0 -> "no_credentials"
      [] \E s \in sessions : s.session_id = session_id /\ s.expires_at > now -> "live"
      [] \E s \in sessions : s.session_id = session_id -> "expired"
      [] session_id \in deleted -> "deleted"
      [] OTHER -> "unknown"

\* get_current_user up to the SELECT of get_session: 401 without credentials;
\* SELECT ... WHERE s.session_id = %s AND s.expires_at > now(); 401 when
\* get_session returns None.
GetCurrentUser(q) ==
    /\ AuthIdle(q)
    /\ \E session_id \in SessionIds :
        /\ areq' = [areq EXCEPT ![q] = [op |-> "me", username |-> "", password |-> "",
                                        session_id |-> session_id]]
        /\ LET result == {s \in sessions : s.session_id = session_id /\ NotExpired(s, now)}
           IN  IF session_id = 0 \/ result = {}
               THEN /\ aresult' = [aresult EXCEPT ![q] = Response(401, 0, 0)]
                    /\ apc' = [apc EXCEPT ![q] = "done"]
                    /\ alocal' = [alocal EXCEPT ![q] = 0]
               ELSE \E s \in result :
                    /\ aresult' = [aresult EXCEPT ![q] = Response(0, 0, 0)]
                    /\ apc' = [apc EXCEPT ![q] = "touch"]
                    /\ alocal' = [alocal EXCEPT ![q] = s.user_id]
        /\ acase' = [acase EXCEPT ![q] = SessionCase(session_id)]
    /\ UNCHANGED <<sessions, sess_seq, now, deleted>>

\* Variant of GetSessionUpdate with a sliding expiry: the UPDATE also moves
\* expires_at.
GetSessionUpdateMut(q) ==
    /\ apc[q] = "touch"
    /\ sessions' = {IF s.session_id = areq[q].session_id
                    THEN [s EXCEPT !.last_accessed_at = now,
                                   !.expires_at = now + SESSION_EXPIRE_MINUTES]
                    ELSE s : s \in sessions}
    /\ aresult' = [aresult EXCEPT ![q] = Response(200, areq[q].session_id, alocal[q])]
    /\ apc' = [apc EXCEPT ![q] = "done"]
    /\ UNCHANGED <<sess_seq, now, areq, alocal, acase, deleted>>

\* get_session: UPDATE public.sessions SET last_accessed_at = now() WHERE
\* session_id = %s; commit; return dict(result). get_current_user answers with
\* the fields of the row.
GetSessionUpdate(q) ==
    /\ apc[q] = "touch"
    /\ sessions' = {IF s.session_id = areq[q].session_id
                    THEN [s EXCEPT !.last_accessed_at = now] ELSE s : s \in sessions}
    /\ aresult' = [aresult EXCEPT ![q] = Response(200, areq[q].session_id, alocal[q])]
    /\ apc' = [apc EXCEPT ![q] = "done"]
    /\ UNCHANGED <<sess_seq, now, areq, alocal, acase, deleted>>

\* Variant of Logout whose delete_session reports success without deleting.
LogoutMut(q) ==
    /\ AuthIdle(q)
    /\ \E session_id \in SessionIds :
        /\ areq' = [areq EXCEPT ![q] = [op |-> "logout", username |-> "", password |-> "",
                                        session_id |-> session_id]]
        /\ aresult' = [aresult EXCEPT ![q] = Response(200, session_id, 0)]
        /\ deleted' = deleted \cup {session_id}
    /\ apc' = [apc EXCEPT ![q] = "done"]
    /\ alocal' = [alocal EXCEPT ![q] = 0]
    /\ acase' = [acase EXCEPT ![q] = ""]
    /\ UNCHANGED <<sessions, sess_seq, now>>

\* logout: delete_session runs DELETE FROM public.sessions WHERE session_id =
\* %s and returns rowcount > 0; 404 when nothing was deleted.
Logout(q) ==
    /\ AuthIdle(q)
    /\ \E session_id \in SessionIds :
        /\ areq' = [areq EXCEPT ![q] = [op |-> "logout", username |-> "", password |-> "",
                                        session_id |-> session_id]]
        /\ LET deleted_rows == {s \in sessions : s.session_id = session_id}
           IN  /\ sessions' = sessions \ deleted_rows
               /\ aresult' = [aresult EXCEPT ![q] =
                     IF deleted_rows # {} THEN Response(200, session_id, 0)
                     ELSE Response(404, 0, 0)]
               /\ deleted' = IF deleted_rows # {} THEN deleted \cup {session_id} ELSE deleted
    /\ apc' = [apc EXCEPT ![q] = "done"]
    /\ alocal' = [alocal EXCEPT ![q] = 0]
    /\ acase' = [acase EXCEPT ![q] = ""]
    /\ UNCHANGED <<sess_seq, now>>

\* cleanup_expired_sessions: DELETE FROM public.sessions WHERE expires_at < now()
CleanupExpired ==
    /\ sessions' = {s \in sessions : ~(s.expires_at < now)}
    /\ UNCHANGED <<sess_seq, now, apc, areq, alocal, aresult, acase, deleted>>

\* Time passes.
Tick ==
    /\ now < MaxTime
    /\ now' = now + 1
    /\ UNCHANGED <<sessions, sess_seq, apc, areq, alocal, aresult, acase, deleted>>

\* ------------------------------------------------------------- chat
SystemMessage(content) == [type |-> "system", content |-> content]
HumanMessage(content) == [type |-> "human", content |-> content]
AIMessage(content) == [type |-> "ai", content |-> content]

\* request.q of the n-th request, and the answer text collected from chunks
\* of the stream that answers it.
Question(n) == <<"q", n>>
Answer(n, collected) == <<"a", n, collected>>

\* str(uuid.uuid4()) of the request about to start: an id no session has had.
FreshSessionId == kstarts + 2

ChatIdle(k) == kpc[k] \in {"idle", "ended"} /\ kstarts < MaxChatStarts

\* dict[key] = value
SetItem(dict, key, value) ==
    [s \in DOMAIN dict \cup {key} |-> IF s = key THEN value ELSE dict[s]]

\* del dict[key]
DelItem(dict, key) == [s \in DOMAIN dict \ {key} |-> dict[s]]

\* stream_chat up to its first yield: the session id, the history entry (with
\* the system message for a new session), the user message, the session_id
\* event.
ChatStart(k) ==
    /\ ChatIdle(k)
    /\ \E rs \in RequestSessionIds :
        LET session_id == IF rs = 0 THEN FreshSessionId ELSE rs
            history == IF session_id \in DOMAIN conversation_history
                       THEN conversation_history[session_id]
                       ELSE <<SystemMessage("system_prompt")>>
        IN  /\ kreq' = [kreq EXCEPT ![k] = [endpoint |-> "chat", q |-> kstarts + 1,
                                            session_id |-> session_id, agent_name |-> ""]]
            /\ conversation_history' =
                  SetItem(conversation_history, session_id,
                          Append(history, HumanMessage(Question(kstarts + 1))))
    /\ events' = [events EXCEPT ![k] = <<"session_id">>]
    /\ full_content' = [full_content EXCEPT ![k] = 0]
    /\ cleared' = [cleared EXCEPT ![k] = FALSE]
    /\ kpc' = [kpc EXCEPT ![k] = "opened"]
    /\ kstarts' = kstarts + 1
    /\ UNCHANGED agent_conversation_history

\* stream_chat: `llm.astream(conversation_history[session_id])`; a KeyError
\* leaves the generator.
ChatAstream(k) ==
    /\ kpc[k] = "opened"
    /\ kreq[k].endpoint = "chat"
    /\ kpc' = [kpc EXCEPT ![k] = IF kreq[k].session_id \in DOMAIN conversation_history
                                 THEN "streaming" ELSE "ended"]
    /\ UNCHANGED <<conversation_history, agent_conversation_history, kreq, events,
                   full_content, cleared, kstarts>>

\* stream_chat: a chunk with content is collected and sent.
ChatChunk(k) ==
    /\ kpc[k] = "streaming"
    /\ kreq[k].endpoint = "chat"
    /\ full_content[k] < MaxChunks
    /\ full_content' = [full_content EXCEPT ![k] = @ + 1]
    /\ events' = [events EXCEPT ![k] = Append(@, "content")]
    /\ UNCHANGED <<conversation_history, agent_conversation_history, kpc, kreq, cleared,
                   kstarts>>

\* stream_chat: llm.astream raises; nothing catches it.
ChatLLMFail(k) ==
    /\ kpc[k] = "streaming"
    /\ kreq[k].endpoint = "chat"
    /\ kpc' = [kpc EXCEPT ![k] = "ended"]
    /\ UNCHANGED <<conversation_history, agent_conversation_history, kreq, events,
                   full_content, cleared, kstarts>>

\* stream_chat after the last chunk:
\* `conversation_history[session_id].append(AIMessage(...))` (a KeyError
\* leaves the generator), then the done event.
ChatFinish(k) ==
    /\ kpc[k] = "streaming"
    /\ kreq[k].endpoint = "chat"
    /\ LET session_id == kreq[k].session_id
       IN  IF session_id \in DOMAIN conversation_history
           THEN /\ conversation_history' =
                      SetItem(conversation_history, session_id,
                              Append(conversation_history[session_id],
                                     AIMessage(Answer(kreq[k].q, full_content[k]))))
                /\ events' = [events EXCEPT ![k] = Append(@, "done")]
           ELSE UNCHANGED <<conversation_history, events>>
    /\ kpc' = [kpc EXCEPT ![k] = "ended"]
    /\ UNCHANGED <<agent_conversation_history, kreq, full_content, cleared, kstarts>>

\* The chat requests of an endpoint that are between their first yield and
\* their end on the session.
Streaming(endpoint, session_id) ==
    {k \in ChatReqs : /\ kpc[k] \in {"opened", "streaming"}
                      /\ kreq[k].endpoint = endpoint
                      /\ kreq[k].session_id = session_id}

\* clear_history
ClearHistory ==
    /\ \E session_id \in ChatSessionIds :
        /\ session_id \in DOMAIN conversation_history
        /\ conversation_history' = DelItem(conversation_history, session_id)
        /\ cleared' = [k \in ChatReqs |-> cleared[k] \/ k \in Streaming("chat", session_id)]
    /\ UNCHANGED <<agent_conversation_history, kpc, kreq, events, full_content, kstarts>>

\* Variant of AgentStart that appends the user message when the request
\* starts, as stream_chat does.
AgentStartMut(k) ==
    /\ ChatIdle(k)
    /\ \E agent_name \in AgentNames, rn \in RequestAgentNames, rs \in RequestSessionIds :
        LET actual_agent_name == IF rn # "" THEN rn ELSE agent_name
            session_id == IF rs = 0 THEN FreshSessionId ELSE rs
            history == IF session_id \in DOMAIN agent_conversation_history
                       THEN agent_conversation_history[session_id]
                       ELSE << >>
        IN  IF actual_agent_name \notin AGENT_REGISTRY
            THEN /\ kreq' = [kreq EXCEPT ![k] = [endpoint |-> "agent", q |-> kstarts + 1,
                                                 session_id |-> 0,
                                                 agent_name |-> actual_agent_name]]
                 /\ events' = [events EXCEPT ![k] = <<"error">>]
                 /\ kpc' = [kpc EXCEPT ![k] = "ended"]
                 /\ UNCHANGED agent_conversation_history
            ELSE /\ kreq' = [kreq EXCEPT ![k] = [endpoint |-> "agent", q |-> kstarts + 1,
                                                 session_id |-> session_id,
                                                 agent_name |-> actual_agent_name]]
                 /\ agent_conversation_history' =
                       SetItem(agent_conversation_history, session_id,
                               Append(history, HumanMessage(Question(kstarts + 1))))
                 /\ events' = [events EXCEPT ![k] = <<"session_id">>]
                 /\ kpc' = [kpc EXCEPT ![k] = "opened"]
    /\ full_content' = [full_content EXCEPT ![k] = 0]
    /\ cleared' = [cleared EXCEPT ![k] = FALSE]
    /\ kstarts' = kstarts + 1
    /\ UNCHANGED conversation_history

\* stream_agent_chat up to its first yield: the agent name of the body wins
\* over the one of the path; get_agent raises ValueError for an unregistered
\* name and the error event is sent; else the history entry is created when
\* absent and the session_id event is sent.
AgentStart(k) ==
    /\ ChatIdle(k)
    /\ \E agent_name \in AgentNames, rn \in RequestAgentNames, rs \in RequestSessionIds :
        LET actual_agent_name == IF rn # "" THEN rn ELSE agent_name
            session_id == IF rs = 0 THEN FreshSessionId ELSE rs
            history == IF session_id \in DOMAIN agent_conversation_history
                       THEN agent_conversation_history[session_id]
                       ELSE << >>
        IN  IF actual_agent_name \notin AGENT_REGISTRY
            THEN /\ kreq' = [kreq EXCEPT ![k] = [endpoint |-> "agent", q |-> kstarts + 1,
                                                 session_id |-> 0,
                                                 agent_name |-> actual_agent_name]]
                 /\ events' = [events EXCEPT ![k] = <<"error">>]
                 /\ kpc' = [kpc EXCEPT ![k] = "ended"]
                 /\ UNCHANGED agent_conversation_history
            ELSE /\ kreq' = [kreq EXCEPT ![k] = [endpoint |-> "agent", q |-> kstarts + 1,
                                                 session_id |-> session_id,
                                                 agent_name |-> actual_agent_name]]
                 /\ agent_conversation_history' =
                       SetItem(agent_conversation_history, session_id, history)
                 /\ events' = [events EXCEPT ![k] = <<"session_id">>]
                 /\ kpc' = [kpc EXCEPT ![k] = "opened"]
    /\ full_content' = [full_content EXCEPT ![k] = 0]
    /\ cleared' = [cleared EXCEPT ![k] = FALSE]
    /\ kstarts' = kstarts + 1
    /\ UNCHANGED conversation_history

\* stream_agent_chat: the argument of agent_instance.astream reads
\* agent_conversation_history[session_id]; a KeyError is caught by
\* `except Exception` and the error event is sent.
AgentAstream(k) ==
    /\ kpc[k] = "opened"
    /\ kreq[k].endpoint = "agent"
    /\ IF kreq[k].session_id \in DOMAIN agent_conversation_history
       THEN /\ kpc' = [kpc EXCEPT ![k] = "streaming"]
            /\ UNCHANGED events
       ELSE /\ kpc' = [kpc EXCEPT ![k] = "ended"]
            /\ events' = [events EXCEPT ![k] = Append(@, "error")]
    /\ UNCHANGED <<conversation_history, agent_conversation_history, kreq, full_content,
                   cleared, kstarts>>

\* stream_agent_chat: a text chunk is collected and sent.
AgentChunk(k) ==
    /\ kpc[k] = "streaming"
    /\ kreq[k].endpoint = "agent"
    /\ full_content[k] < MaxChunks
    /\ full_content' = [full_content EXCEPT ![k] = @ + 1]
    /\ events' = [events EXCEPT ![k] = Append(@, "content")]
    /\ UNCHANGED <<conversation_history, agent_conversation_history, kpc, kreq, cleared,
                   kstarts>>

\* stream_agent_chat: the agent stream raises; `except Exception` sends the
\* error event.
AgentFail(k) ==
    /\ kpc[k] = "streaming"
    /\ kreq[k].endpoint = "agent"
    /\ events' = [events EXCEPT ![k] = Append(@, "error")]
    /\ kpc' = [kpc EXCEPT ![k] = "ended"]
    /\ UNCHANGED <<conversation_history, agent_conversation_history, kreq, full_content,
                   cleared, kstarts>>

\* stream_agent_chat after the last chunk:
\* `agent_conversation_history[session_id].extend([HumanMessage, AIMessage])`
\* (a KeyError is caught and the error event is sent), then the done event.
AgentFinish(k) ==
    /\ kpc[k] = "streaming"
    /\ kreq[k].endpoint = "agent"
    /\ LET session_id == kreq[k].session_id
       IN  IF session_id \in DOMAIN agent_conversation_history
           THEN /\ agent_conversation_history' =
                      SetItem(agent_conversation_history, session_id,
                              agent_conversation_history[session_id] \o
                                  <<HumanMessage(Question(kreq[k].q)),
                                    AIMessage(Answer(kreq[k].q, full_content[k]))>>)
                /\ events' = [events EXCEPT ![k] = Append(@, "done")]
           ELSE /\ events' = [events EXCEPT ![k] = Append(@, "error")]
                /\ UNCHANGED agent_conversation_history
    /\ kpc' = [kpc EXCEPT ![k] = "ended"]
    /\ UNCHANGED <<conversation_history, kreq, full_content, cleared, kstarts>>

\* clear_agent_history
ClearAgentHistory ==
    /\ \E session_id \in ChatSessionIds :
        /\ session_id \in DOMAIN agent_conversation_history
        /\ agent_conversation_history' = DelItem(agent_conversation_history, session_id)
        /\ cleared' = [k \in ChatReqs |-> cleared[k] \/ k \in Streaming("agent", session_id)]
    /\ UNCHANGED <<conversation_history, kpc, kreq, events, full_content, kstarts>>

\* ------------------------------------------------------------- specifications
\* Overlapping ingestion runs.
Next ==
    /\ \E r \in Procs :
        \/ ProcessAndSave(r) /\ starts < MaxStarts
        \/ Ingest(r)
    /\ UNCHANGED <<ragVars, authVars, chatVars>>

Spec == Init /\ [][Next]_vars

\* Non-overlapping runs: the runs of one worker, one after the other.
NextSeq ==
    /\ LET r == CHOOSE p \in Procs : TRUE
       IN  \/ ProcessAndSave(r) /\ starts < MaxSeqStarts
           \/ Ingest(r)
    /\ UNCHANGED <<ragVars, authVars, chatVars>>

SpecSeq == Init /\ [][NextSeq]_vars

\* Searches running while one worker ingests documents.
NextSearch ==
    /\ \/ LET r == CHOOSE p \in Procs : TRUE
          IN  \/ ProcessAndSave(r) /\ starts < MaxStarts
              \/ Ingest(r)
       \/ Search
    /\ UNCHANGED <<ragVars, authVars, chatVars>>

SpecSearch == Init /\ [][NextSearch]_vars

\* rag_search calls made while one worker ingests documents.
NextRag ==
    /\ \/ /\ LET r == CHOOSE p \in Procs : TRUE
             IN  \/ ProcessAndSave(r) /\ starts < MaxRagStarts
                 \/ Ingest(r)
          /\ UNCHANGED ragVars
       \/ /\ rpc = "searching"
          /\ SearchQuery \/ SearchQueryFail \/ SearchDiag \/ SearchDiagFail
          /\ UNCHANGED ragVars
       \/ RagSearch
       \/ RagEmbedFail
       \/ RagConnectFail
       \/ RagFormat
       \/ RagAgentPrompt
    /\ UNCHANGED <<authVars, chatVars>>

SpecRag == Init /\ [][NextRag]_vars

\* Requests to /auth/login, /auth/me and /auth/logout in progress at the same
\* time, the cleanup job, and the clock.
NextAuth ==
    /\ \/ \E q \in AuthReqs :
             \/ Login(q)
             \/ CreateSession(q)
             \/ CreateSessionFail(q)
             \/ GetCurrentUser(q)
             \/ GetSessionUpdate(q)
             \/ Logout(q)
       \/ CleanupExpired
       \/ Tick
    /\ UNCHANGED <<storeVars, ingestVars, searchVars, ragVars, chatVars>>

\* The sessions do not depend on the document tables: their column dimension
\* is the one of the migration.
InitAuth == Init /\ colDim = MigrationDim

SpecAuth == InitAuth /\ [][NextAuth]_vars

\* Requests to /chat and /chat/run/{agent_name}/v1 in progress at the same
\* time on one event loop, and requests that clear a history.
NextChat ==
    /\ \/ \E k \in ChatReqs :
             \/ ChatStart(k)
             \/ ChatAstream(k)
             \/ ChatChunk(k)
             \/ ChatLLMFail(k)
             \/ ChatFinish(k)
             \/ AgentStart(k)
             \/ AgentAstream(k)
             \/ AgentChunk(k)
             \/ AgentFail(k)
             \/ AgentFinish(k)
       \/ ClearHistory
       \/ ClearAgentHistory
    /\ UNCHANGED <<storeVars, ingestVars, searchVars, ragVars, authVars>>

\* The chat histories do not depend on the document tables.
InitChat == Init /\ colDim = MigrationDim

SpecChat == InitChat /\ [][NextChat]_vars

\* ------------------------------------------------------------- properties
NoneActive == \A r \in Procs : ~Active(r)

\* The committed chunk rows of document d.
ChunksOf(d) == {c \in document_chunk : c.document_id = d}

\* The committed chunk rows of all documents whose content_hash is h.
ChunksOfHash(h) ==
    {c \in document_chunk :
        \E d \in document : d.id = c.document_id /\ d.content_hash = h}

\* The chunk rows of document d are the full chunk set of text t: one row per
\* piece of split_text(t), with the piece's index, content and embedding.
FullChunkSet(d, t) ==
    LET pieces == split_text(t)
        vectors == embed_documents(pieces)
    IN  /\ Cardinality(ChunksOf(d)) = Len(pieces)
        /\ \A i \in 1..Len(pieces) :
              \E c \in ChunksOf(d) :
                  /\ c.chunk_index = i - 1
                  /\ c.content = pieces[i]
                  /\ c.embedding = vectors[i]

\* C1: in every reachable state there is at most one document row per
\* content_hash, also when two ingestion runs on identical content overlap.
C1_OneDocumentPerHash ==
    \A d1, d2 \in document : d1.content_hash = d2.content_hash => d1.id = d2.id

\* C2: once the ingestion runs on identical content have ended, the store holds
\* exactly one full chunk set for that content: as many chunk rows as one split
\* produces pieces, and no chunk_index twice for the same document.
C2_OneChunkSetPerContent ==
    NoneActive =>
        \A t \in ingested :
            LET cs == ChunksOfHash(calculate_hash(t))
            IN  /\ Cardinality(cs) = Len(split_text(t))
                /\ \A c1, c2 \in cs :
                      (c1.document_id = c2.document_id /\ c1.chunk_index = c2.chunk_index)
                          => c1.id = c2.id

\* C3: a run of process_and_save on non-blank content on which an earlier,
\* non-overlapping run has returned normally changes no document or chunk row
\* and returns normally, leaving exactly one document row with that hash and
\* exactly one full chunk set for it.
C3_SecondRunIsNoOp ==
    [][\A r \in Procs :
          (Active(r) /\ prior[r]) =>
              /\ UNCHANGED <<document, document_chunk>>
              /\ pc'[r] # "failed"
              /\ pc'[r] = "done" =>
                    LET h == calculate_hash(data[r].text)
                    IN  /\ Cardinality({d \in document : d.content_hash = h}) = 1
                        /\ \A d \in document :
                              d.content_hash = h => FullChunkSet(d.id, data[r].text)]_vars

\* A second run on a text of two pieces has returned.
C3_Witness ==
    \E r \in Procs :
        /\ pc[r] = "done"
        /\ prior[r]
        /\ Len(split_text(data[r].text)) >= 2
        /\ count_chunks(doc_id[r]) = 2

\* C4: in every committed state each document has either no chunk row or the
\* complete chunk set of one chunking pass (never a partial set, never more).
C4_ZeroOrFullChunkSet ==
    \A d \in document : ChunksOf(d.id) = {} \/ FullChunkSet(d.id, d.content)

\* C5: after any sequence of non-overlapping runs, aborted and retried ones
\* included, the chunk_index values of every document are exactly 0..n-1, each
\* once, n being the number of its chunk rows.
C5_ChunkIndexContiguous ==
    \A d \in document :
        LET cs == ChunksOf(d.id)
        IN  \A i \in 0..(Cardinality(cs) - 1) :
                Cardinality({c \in cs : c.chunk_index = i}) = 1

\* A run that found the chunk-less document of an aborted run stored two chunks.
C5_Witness ==
    \E r \in Procs :
        /\ pc[r] = "done"
        /\ resumed[r]
        /\ wrote[r] >= 2
        /\ count_chunks(doc_id[r]) >= 2

\* C6: when embed_documents raises in a run that inserted the document row, the
\* run ends with that document row committed, no chunk row for the document,
\* and no chunk row written by the run.
C6_EmbedFailureLeavesNoChunks ==
    [][\A r \in Procs :
          (pc[r] = "embed" /\ pc'[r] = "failed" /\ inserted[r]) =>
              /\ \E d \in document' :
                    /\ d.id = doc_id[r]
                    /\ d.content_hash = calculate_hash(data[r].text)
              /\ {c \in document_chunk' : c.document_id = doc_id[r]} = {}
              /\ wrote'[r] = 0
              /\ pending'[r] = <<>>
              /\ failedAt'[r] = "embed"]_vars

\* The embedding call of a run on new content has failed.
C6_Witness ==
    \E r \in Procs :
        /\ pc[r] = "failed"
        /\ failedAt[r] = "embed"
        /\ inserted[r]
        /\ embedCalls[r] = 1
        /\ \E d \in document : d.id = doc_id[r]

\* C7: a run on content whose document row exists without chunk rows reuses
\* that row's id and inserts no document row; when it returns normally the
\* full chunk set is stored under that id.
C7_ResumeReusesDocument ==
    \A r \in Procs :
        resumed[r] =>
            /\ ~inserted[r]
            /\ \E d \in document :
                  d.id = doc_id[r] /\ d.content_hash = calculate_hash(data[r].text)
            /\ Cardinality({d \in document :
                              d.content_hash = calculate_hash(data[r].text)}) = 1
            /\ pc[r] = "done" => FullChunkSet(doc_id[r], data[r].text)

\* A run that reused a chunk-less document has stored its chunks.
C7_Witness ==
    \E r \in Procs :
        /\ resumed[r]
        /\ pc[r] = "done"
        /\ embedCalls[r] = 1
        /\ wrote[r] = Len(split_text(data[r].text))

\* C8: when the SELECT of save_document_to_db found a document and the count
\* query finds at least one chunk row for it, the run returns at that point: it
\* has not chunked, made no embedding call, and wrote no document or chunk row.
C8_SkipWhenChunksExist ==
    [][\A r \in Procs :
          (/\ pc[r] = "count"
           /\ pc'[r] # "count"
           /\ found[r]
           /\ count_chunks(doc_id[r]) > 0) =>
              /\ pc'[r] = "done"
              /\ chunks'[r] = <<>>
              /\ embeddings'[r] = <<>>
              /\ embedCalls'[r] = 0
              /\ ~inserted'[r]
              /\ wrote'[r] = 0
              /\ pending'[r] = <<>>
              /\ UNCHANGED <<document, document_chunk>>]_vars

\* A run has found an existing document with chunks and returned.
C8_Witness ==
    \E r \in Procs :
        /\ pc[r] = "done"
        /\ found[r]
        /\ count_chunks(doc_id[r]) > 0
        /\ embedCalls[r] = 0
        /\ chunks[r] = <<>>

\* C9: the list search_similar_chunks returns is non-increasing in similarity
\* and holds no element whose similarity is below similarity_threshold.
C9_ResultsOrderedAboveThreshold ==
    spc = "returned" =>
        /\ \A i, j \in 1..Len(sresult) :
              i < j => sresult[i].similarity >= sresult[j].similarity
        /\ \A i \in 1..Len(sresult) :
              sresult[i].similarity >= sargs.similarity_threshold

\* A search returned two results of different similarity and dropped a row
\* that was below the threshold.
C9_Witness ==
    /\ spc = "returned"
    /\ Len(sresult) >= 2
    /\ sresult[1].similarity > sresult[Len(sresult)].similarity
    /\ Len(rows) > Len(sresult)

\* C10: search_similar_chunks never returns more than top_k results.
C10_AtMostTopK ==
    spc = "returned" => Len(sresult) <= sargs.top_k

\* C11: a call of search_similar_chunks with a non-empty query vector that
\* finds no chunk row with an embedding returns the empty list at once: it does
\* not raise and executes no similarity query.
C11_EmptyIndexReturnsEmpty ==
    [][(/\ spc = "idle"
        /\ spc' # "idle"
        /\ sargs'.query_embedding.dim # 0
        /\ document_chunk = {}) =>
            /\ spc' = "returned"
            /\ total_chunks' = 0
            /\ sresult' = <<>>
            /\ rows' = <<>>
            /\ sim_queries' = 0]_vars

\* A search with a query vector of the provider's dimension has returned from
\* a store that holds a document but no chunk.
C11_Witness ==
    /\ spc = "returned"
    /\ sargs.query_embedding.dim = EmbeddingDim
    /\ sargs.query_embedding.norm = 1
    /\ document # {}
    /\ document_chunk = {}
    /\ total_chunks = 0
    /\ sim_queries = 0

\* C15: when no candidate meets similarity_threshold, the row of the LIMIT 1
\* query is never added to the result: the call returns the empty list whether
\* that query fetched a row, fetched nothing or raised.
C15_NoRelaxedFallback ==
    [][(spc = "diag" /\ spc' # "diag") =>
            /\ spc' = "returned"
            /\ sresult = <<>>
            /\ sresult' = <<>>]_vars

\* The LIMIT 1 query fetched a row whose similarity is a number below the
\* threshold, and the call returned nothing.
C15_Witness ==
    /\ spc = "returned"
    /\ sim_queries = 2
    /\ diag_row # <<>>
    /\ ~diag_row[1].similarity.nan
    /\ diag_row[1].similarity.v < sargs.similarity_threshold
    /\ sresult = <<>>

\* C12: the value rag_search returns for an empty index (no chunk with an
\* embedding) differs from the value it returns when chunks are indexed but
\* none meets the similarity threshold.
C12_EmptyIndexDistinguishable ==
    \A x, y \in seen : x.case # y.case => x.value # y.value

\* C13: rag_search with an empty or whitespace-only query is rejected before
\* any I/O: it makes no embed_query call and never enters
\* search_similar_chunks.
C13_BlankQueryRejectedBeforeIO ==
    (rpc # "idle" /\ IsBlank(rargs.query)) =>
        /\ rembed = 0
        /\ rpc = "returned"
        /\ rcase = ""
        /\ rresult.kind \notin {"NoDocuments", "Documents"}

\* C14: when the similarity query fetched candidates and none of them meets
\* the threshold, search_similar_chunks returns the empty list and rag_search
\* returns the no-documents sentinel; neither raises.
C14_NoResultIsSentinel ==
    [][(/\ rpc = "searching"
        /\ rpc' = "returned"
        /\ rows # <<>>
        /\ \A i \in 1..Len(rows) :
              \/ rows[i].similarity.nan
              \/ rows[i].similarity.v < sargs.similarity_threshold) =>
            /\ spc = "returned"
            /\ sresult = <<>>
            /\ rresult' = NoDocuments]_vars

\* rag_search with a non-blank query and the strict threshold has returned the
\* sentinel from a store whose chunks were all below the threshold.
C14_Witness ==
    /\ rpc = "returned"
    /\ rcase = "below_threshold"
    /\ rresult = NoDocuments
    /\ ~IsBlank(rargs.query)
    /\ rargs.similarity_threshold = 900
    /\ document_chunk # {}

\* C16: when the dimension of the document_chunk.embedding column differs from
\* the dimension get_embeddings_model asks for, the mismatch is detected before
\* a run commits a document row or calls the embedding provider, and never at
\* a chunk INSERT.
C16_DimensionMismatchDetectedEagerly ==
    colDim # EmbeddingDim =>
        /\ document = {}
        /\ \A r \in Procs : embedCalls[r] = 0 /\ failedAt[r] # "insert"

\* C17: a run of process_and_save on empty or whitespace-only text is done at
\* once, having chunked nothing, called no embedding and stored no chunk row.
C17_BlankContentStoresNoChunks ==
    \A r \in Procs :
        (pc[r] # "idle" /\ (data[r].text = <<>> \/ strip(data[r].text) = <<>>)) =>
            /\ pc[r] = "done"
            /\ chunks[r] = <<>>
            /\ embedCalls[r] = 0
            /\ pending[r] = <<>>
            /\ wrote[r] = 0

\* A run on the whitespace-only text is done while the store holds chunks of
\* another text.
C17_Witness ==
    \E r \in Procs :
        /\ pc[r] = "done"
        /\ data[r].text = <<" ">>
        /\ wrote[r] = 0
        /\ document_chunk # {}

\* C20: within one run the document row is committed before the chunk count,
\* the chunking and the embedding call; the pieces exist before the embedding
\* call; and chunk rows are inserted only after embed_documents has returned
\* the vectors of the whole batch.
C20_StepOrder ==
    \A r \in Procs :
        /\ (pc[r] \in {"count", "embed", "store"} \/ chunks[r] # <<>> \/ embedCalls[r] > 0) =>
              /\ found[r] \/ inserted[r]
              /\ \E d \in document :
                    d.id = doc_id[r] /\ d.content_hash = calculate_hash(data[r].text)
        /\ (pc[r] \in {"embed", "store"} \/ embedCalls[r] > 0) =>
              chunks[r] # <<>> /\ chunks[r] = split_text(data[r].text)
        /\ (pc[r] = "store" \/ pending[r] # <<>> \/ wrote[r] > 0) =>
              /\ embedCalls[r] = 1
              /\ failedAt[r] # "embed"
              /\ embeddings[r] = embed_documents(chunks[r])
              /\ Len(pending[r]) <= Len(embeddings[r])

\* A run on new content of two pieces went through every step and stored its
\* chunks.
C20_Witness ==
    \E r \in Procs :
        /\ pc[r] = "done"
        /\ inserted[r]
        /\ embedCalls[r] = 1
        /\ wrote[r] = 2
        /\ count_chunks(doc_id[r]) >= 2

\* C18: get_session answers with session information only when a row with
\* that session_id exists and its expires_at is strictly later than the current
\* time, and the information is that of this row; for an unknown, deleted or
\* expired session id it returns None (the request is answered 401) and no
\* session row is changed.
C18_GetSessionOnlyLive ==
    [][\A q \in AuthReqs :
          /\ (/\ apc[q] \in {"idle", "done"}
              /\ areq'[q].op = "me"
              /\ <<apc'[q], areq'[q], aresult'[q]>> # <<apc[q], areq[q], aresult[q]>>) =>
                LET live == {s \in sessions : /\ s.session_id = areq'[q].session_id
                                              /\ s.expires_at > now}
                IN  IF live = {}
                    THEN /\ apc'[q] = "done"
                         /\ aresult'[q].status = 401
                         /\ sessions' = sessions
                    ELSE /\ apc'[q] = "touch"
                         /\ \E s \in live : alocal'[q] = s.user_id
          /\ (apc[q] = "touch" /\ apc'[q] # "touch") =>
                /\ areq[q].op = "me"
                /\ aresult'[q] = [status |-> 200, session_id |-> areq[q].session_id,
                                  user_id |-> alocal[q]]
                /\ \A s \in sessions' : s.session_id = areq[q].session_id =>
                                            s.user_id = alocal[q]]_vars

\* A request for an expired session whose row is still stored was answered
\* 401, and another request got the information of a live session.
C18_Witness ==
    \E q, p \in AuthReqs :
        /\ apc[q] = "done"
        /\ areq[q].op = "me"
        /\ aresult[q].status = 401
        /\ acase[q] = "expired"
        /\ apc[p] = "done"
        /\ areq[p].op = "me"
        /\ aresult[p].status = 200

\* C19: every session row that appears was inserted for a login request whose
\* username names an active user and whose password equals that user's stored
\* password; a login answered 401 or 403 leaves the sessions table unchanged.
C19_SessionOnlyForValidLogin ==
    [][/\ \A s \in sessions' :
            (\A t \in sessions : t.session_id # s.session_id) =>
                \E q \in AuthReqs, u \in Users :
                    /\ areq[q].op = "login"
                    /\ u.username = areq[q].username
                    /\ u.password = areq[q].password
                    /\ u.is_active
                    /\ s.user_id = u.id
                    /\ aresult'[q].status = 200
                    /\ aresult'[q].session_id = s.session_id
       /\ \A q \in AuthReqs :
            (/\ areq'[q].op = "login"
             /\ aresult'[q].status \in {401, 403}
             /\ <<apc'[q], areq'[q], aresult'[q]>> # <<apc[q], areq[q], aresult[q]>>) =>
                sessions' = sessions]_vars

\* One login created a session row while logins with a wrong password and for
\* the disabled account were rejected.
C19_Witness ==
    \E q, p \in AuthReqs :
        /\ areq[q].op = "login"
        /\ aresult[q].status = 200
        /\ \E s \in sessions : s.session_id = aresult[q].session_id
        /\ areq[p].op = "login"
        /\ aresult[p].status = 403
        /\ Cardinality(sessions) = 1

\* C21: document rows are append-only: every row of public.document stays in
\* the table with its source_url, title, content and content_hash unchanged.
C21_DocumentsAppendOnly ==
    [][\A d \in document : d \in document']_vars

\* Two runs have inserted a document row each, the second under the URL of
\* the first.
C21_Witness ==
    /\ \E d1, d2 \in document : d1.id # d2.id /\ d1.source_url = d2.source_url
    /\ \E r \in Procs : pc[r] = "done" /\ inserted[r]

\* C22: every step of search_similar_chunks leaves the document and
\* document_chunk tables, their sequences and the state of the ingestion runs
\* unchanged.
C22_SearchReadOnly ==
    [][searchVars' # searchVars => UNCHANGED <<storeVars, ingestVars>>]_vars

\* A search has returned results while an ingestion run was holding uncommitted
\* chunk rows.
C22_Witness ==
    /\ spc = "returned"
    /\ sresult # <<>>
    /\ \E r \in Procs : pc[r] = "store" /\ pending[r] # <<>>

\* C30: a run of process_and_save on empty or whitespace-only text is over at
\* once without a call of save_document_to_db or of the embedding provider, and
\* no document row is ever stored for blank content.
C30_BlankContentLeavesStore ==
    /\ \A r \in Procs :
          (pc[r] # "idle" /\ (data[r].text = <<>> \/ strip(data[r].text) = <<>>)) =>
              /\ pc[r] = "done"
              /\ ~found[r]
              /\ ~inserted[r]
              /\ doc_id[r] = 0
              /\ embedCalls[r] = 0
    /\ \A d \in document : d.content # <<>> /\ strip(d.content) # <<>>

\* A run on the empty text is over while the store holds a document of another
\* run.
C30_Witness ==
    \E r \in Procs :
        /\ pc[r] = "done"
        /\ data[r].text = <<>>
        /\ starts = MaxStarts
        /\ document # {}

\* C27: delete_session returns True (logout answers 200) exactly when a row
\* with the session id existed, and the row is gone afterwards; a logout of an
\* unknown session is answered 404 and leaves the table unchanged; a session id
\* without a row never gets a row again, and every get_session that runs after
\* delete_session returned True for its id returns None.
C27_DeletedSessionStaysInvalid ==
    [][/\ \A q \in AuthReqs :
            (/\ apc[q] \in {"idle", "done"}
             /\ areq'[q].op = "logout"
             /\ <<apc'[q], areq'[q], aresult'[q]>> # <<apc[q], areq[q], aresult[q]>>) =>
                LET sid == areq'[q].session_id
                    existed == \E s \in sessions : s.session_id = sid
                IN  /\ aresult'[q].status = IF existed THEN 200 ELSE 404
                    /\ ~existed => sessions' = sessions
                    /\ \A s \in sessions' : s.session_id # sid
                    /\ \A s \in sessions : s.session_id # sid => s \in sessions'
       /\ \A sid \in deleted : \A s \in sessions' : s.session_id # sid
       /\ \A q \in AuthReqs :
            (/\ apc[q] \in {"idle", "done"}
             /\ areq'[q].op = "me"
             /\ areq'[q].session_id \in deleted
             /\ <<apc'[q], areq'[q], aresult'[q]>> # <<apc[q], areq[q], aresult[q]>>) =>
                /\ apc'[q] = "done"
                /\ aresult'[q].status = 401]_vars

\* A logout was answered 200 and a later request for the same session was
\* answered 401 before the session would have expired.
C27_Witness ==
    \E q, p \in AuthReqs :
        /\ areq[q].op = "logout"
        /\ aresult[q].status = 200
        /\ areq[p].op = "me"
        /\ areq[p].session_id = areq[q].session_id
        /\ acase[p] = "deleted"
        /\ aresult[p].status = 401
        /\ now < SESSION_EXPIRE_MINUTES

\* C28: a session row is inserted with expires_at = creation time +
\* SESSION_EXPIRE_MINUTES and keeps its expires_at and user_id as long as it
\* exists; the UPDATE of get_session changes only last_accessed_at of the
\* requested session; and a request for a session at or past its expires_at is
\* answered None however recently the session was used.
C28_ExpiryFixedAtCreation ==
    [][/\ \A t \in sessions' :
            IF \E s \in sessions : s.session_id = t.session_id
            THEN \E s \in sessions :
                    /\ s.session_id = t.session_id
                    /\ t.expires_at = s.expires_at
                    /\ t.user_id = s.user_id
            ELSE t.expires_at = now + SESSION_EXPIRE_MINUTES
       /\ \A q \in AuthReqs :
            (apc[q] = "touch" /\ apc'[q] # "touch") =>
                \A s \in sessions :
                    \/ s \in sessions'
                    \/ /\ s.session_id = areq[q].session_id
                       /\ [s EXCEPT !.last_accessed_at = now] \in sessions'
       /\ \A q \in AuthReqs :
            (/\ apc[q] \in {"idle", "done"}
             /\ areq'[q].op = "me"
             /\ \E s \in sessions : s.session_id = areq'[q].session_id /\ s.expires_at <= now
             /\ <<apc'[q], areq'[q], aresult'[q]>> # <<apc[q], areq[q], aresult[q]>>) =>
                /\ apc'[q] = "done"
                /\ aresult'[q].status = 401]_vars

\* A session that was used after its creation was refused at its original
\* expiry.
C28_Witness ==
    \E q \in AuthReqs :
        /\ areq[q].op = "me"
        /\ acase[q] = "expired"
        /\ aresult[q].status = 401
        /\ \E s \in sessions :
              /\ s.session_id = areq[q].session_id
              /\ s.last_accessed_at > s.expires_at - SESSION_EXPIRE_MINUTES
              /\ s.expires_at <= now

\* C29: RagAgent builds the documents-retrieved system prompt only when
\* rag_search returned at least one chunk; for the sentinel and for a
\* retrieval error it builds the no-documents prompt.
C29_DocumentsPromptOnlyWithChunks ==
    enhanced_system.kind # "" =>
        (enhanced_system.kind = "documents" <=> rresult.kind = "Documents")

\* The messages of a session in a history map; none when it has no entry.
MessagesOf(history_map, session_id) ==
    IF session_id \in DOMAIN history_map THEN history_map[session_id] ELSE << >>

ContentEvents(k) == Cardinality({i \in 1..Len(events[k]) : events[k][i] = "content"})

\* The agent request k ends in this step.
AgentEnds(k) ==
    /\ kreq'[k].endpoint = "agent"
    /\ kpc'[k] = "ended"
    /\ <<kpc'[k], kreq'[k], events'[k]>> # <<kpc[k], kreq[k], events[k]>>

\* C23: the messages of a session in agent_conversation_history change only
\* when clear_agent_history removes the entry, or when an agent request on
\* that session ends its stream with the done event, and then by appending
\* the pair (HumanMessage question, AIMessage of everything it sent); an agent
\* request that ends otherwise ends with the error event and leaves every
\* agent history as it was.
C23_AgentHistoryAppendsPairOnDone ==
    [][/\ \A session_id \in ChatSessionIds :
            LET before == MessagesOf(agent_conversation_history, session_id)
                after == MessagesOf(agent_conversation_history', session_id)
            IN  \/ after = before
                \/ /\ session_id \notin DOMAIN agent_conversation_history'
                   /\ <<kpc', kreq', events'>> = <<kpc, kreq, events>>
                \/ \E k \in ChatReqs :
                    /\ kpc[k] = "streaming"
                    /\ AgentEnds(k)
                    /\ kreq[k].session_id = session_id
                    /\ events'[k] = Append(events[k], "done")
                    /\ full_content[k] = ContentEvents(k)
                    /\ after = before \o <<HumanMessage(Question(kreq[k].q)),
                                           AIMessage(Answer(kreq[k].q, full_content[k]))>>
       /\ \A k \in ChatReqs :
            AgentEnds(k) =>
                \/ /\ events'[k][Len(events'[k])] = "done"
                   /\ kreq[k].session_id \in DOMAIN agent_conversation_history'
                \/ /\ events'[k][Len(events'[k])] = "error"
                   /\ agent_conversation_history' = agent_conversation_history]_vars

\* On one session an agent request ended with done and its pair is stored,
\* and another failed after sending content and stored nothing.
C23_Witness ==
    \E k, j \in ChatReqs :
        /\ kreq[k].endpoint = "agent" /\ kreq[j].endpoint = "agent"
        /\ kpc[k] = "ended" /\ kpc[j] = "ended"
        /\ events[k] = <<"session_id", "content", "done">>
        /\ events[j] = <<"session_id", "content", "error">>
        /\ kreq[j].session_id = kreq[k].session_id
        /\ kreq[k].session_id \in DOMAIN agent_conversation_history
        /\ agent_conversation_history[kreq[k].session_id] =
              <<HumanMessage(Question(kreq[k].q)), AIMessage(Answer(kreq[k].q, 1))>>

IsResolvable(k) == kreq[k].endpoint = "chat" \/ kreq[k].agent_name \in AGENT_REGISTRY

TerminalEvents(endpoint) == IF endpoint = "agent" THEN {"done", "error"} ELSE {"done"}

\* C24: the events of a chat stream (stream_chat, or stream_agent_chat for a
\* registered agent) are the session_id event, then content events, then one
\* terminal event (done, or error for the agent endpoint) as the last event;
\* a stream that has ended has its terminal event.
C24_StreamEndsWithOneTerminalEvent ==
    \A k \in ChatReqs :
        (kpc[k] # "idle" /\ IsResolvable(k)) =>
            LET ev == events[k]
                n == Len(ev)
            IN  /\ n >= 1
                /\ ev[1] = "session_id"
                /\ \A i \in 2..(n - 1) : ev[i] = "content"
                /\ n >= 2 => ev[n] \in {"content"} \cup TerminalEvents(kreq[k].endpoint)
                /\ kpc[k] = "ended" <=> (n >= 2 /\ ev[n] \in TerminalEvents(kreq[k].endpoint))

\* C25: every list of conversation_history is the system message followed by
\* alternating HumanMessage and AIMessage entries, every AIMessage being the
\* answer to the question of the HumanMessage before it (the last entry may
\* be a HumanMessage that has no answer yet).
C25_HistoryAlternates ==
    \A session_id \in DOMAIN conversation_history :
        LET h == conversation_history[session_id]
        IN  /\ Len(h) >= 1
            /\ h[1].type = "system"
            /\ \A i \in 2..Len(h) :
                IF i % 2 = 0
                THEN h[i].type = "human"
                ELSE /\ h[i].type = "ai"
                     /\ h[i].content[2] = h[i - 1].content[2]

\* C26: a stream whose session was cleared while it was streaming still ends
\* with its done event.
C26_ClearDoesNotBreakStream ==
    \A k \in ChatReqs :
        (kpc[k] = "ended" /\ cleared[k]) =>
            /\ events[k] # << >>
            /\ events[k][Len(events[k])] = "done"

====
